---- MODULE Spec2Model ----
(***************************************************************************)
(* Model of the Neovim process/session supervisor of src/src/Neovim.ts:    *)
(* the class Neovim with its two owned references (process, instance),     *)
(* the operations getBuffers, newInstance, openFile and close, the four    *)
(* lifecycle handlers registered on the spawned child process, the        *)
(* liveness probe timer, and the launch planning of newInstance as a      *)
(* specification of its own (PlanSpec).  Handlers run to completion (one   *)
(* action per handler run); an await splits an async function into one    *)
(* action per continuation.                                               *)
(***************************************************************************)
EXTENDS Naturals, Sequences, FiniteSets, Bags

VARIABLES
    settings,    \* this.settings: supportedFileTypes, listenOn
    nvimPath,    \* this.nvimBinary.path ("" = unresolved)
    termBinary,  \* this.termBinary ("" = undefined)
    process,     \* this.process: 0 = undefined, p = the child with pid p
    instance,    \* this.instance: 0 = undefined, p = the session attached to child p
    procs,       \* per child with registered handlers: number of lifecycle events delivered
    timers,      \* per launch: the setTimeout callback of the liveness probe
    opens,       \* in-flight async calls: openFile (awaiting the port probe or the
                 \* execFile callback) and getBuffers (awaiting instance.buffers)
    last,        \* the handler run that produced this state and what it emitted
    plans        \* launch planning on its own: the latest runs, inputs and plan of each

vars ==
    <<settings, nvimPath, termBinary, process, instance, procs, timers, opens, last, plans>>

----------------------------------------------------------------------------
(* Bounds of the model *)

MaxSpawns == 2      \* children that are spawned with a pid
MaxEvents == 2      \* lifecycle events delivered in all
MaxOpen == 1        \* openFile and getBuffers calls in flight at once

Pids == 1..MaxSpawns

----------------------------------------------------------------------------
(* Inputs *)

Events == {"error", "close", "exit", "disconnect"}

\* settings.supportedFileTypes draws from these entries
TypeNames == {"md", "excalidraw"}

\* listen addresses, as character sequences: "h:7" and "h:" (no port)
ListenAddrs == { <<"h", ":", "7">>, <<"h", ":">> }

\* vault-relative paths, as dot-separated parts: a.md, a.excalidraw.md, a.png
Files == { <<"a", "md">>, <<"a", "excalidraw", "md">>, <<"a", "png">> }
NullFile == <<>>

BasePath == "vault"

SpawnOutcomes == {"ok", "throws", "nopid", "attachThrows"}
ProbeResults == {"inUse", "free", "rejected"}
ExecStarts == {"started", "throws"}
\* whether the execFile callback receives an error
ExecResults == {"ok", "error"}
\* whether "await this.instance.buffers" resolves or rejects
BuffersResults == {"ok", "error"}

----------------------------------------------------------------------------
(* Emitted effects: notices and calls on external collaborators *)

Eff(t, k, n, a) == [t |-> t, k |-> k, n |-> n, a |-> a]
Notice(k) == Eff("notice", k, 0, <<>>)
SpawnCall(p) == Eff("spawn", "", p, <<>>)
QuitCall(p, ok) == Eff("quit", IF ok THEN "ok" ELSE "threw", p, <<>>)
KillCall(p, ok) == Eff("kill", IF ok THEN "true" ELSE "false", p, <<>>)
EvalCall(p) == Eff("eval", "", p, <<>>)
ProbeCall(port) == Eff("probe", "", 0, <<port>>)
ExecCall(args) == Eff("exec", "", 0, args)
BuffersCall(p) == Eff("buffers", "", p, <<>>)
\* the value an async operation resolves with
Return(k) == Eff("return", k, 0, <<>>)

RECURSIVE SelectKind(_, _)
SelectKind(s, t) ==
    IF s = <<>> THEN <<>>
    ELSE IF Head(s).t = t THEN <<Head(s)>> \o SelectKind(Tail(s), t)
         ELSE SelectKind(Tail(s), t)

NoticesOf(s) == SelectKind(s, "notice")

\* the record of a handler run: op and branch name the code path, pre is
\* <<this.process, this.instance>> when the run started, out is what the
\* run emitted in order, done tells whether the operation the run belongs
\* to has finished, notes are the notices of the whole operation; who is
\* the child or launch whose handler ran, file the openFile argument, in
\* the outcome the environment gave the run
Step(op, branch, out, done, notes) ==
    [op |-> op, branch |-> branch, pre |-> <<process, instance>>, out |-> out,
     done |-> done, notes |-> notes, who |-> 0, file |-> NullFile, in |-> ""]

By(s, p) == [s EXCEPT !.who = p]
On(s, f) == [s EXCEPT !.file = f]
Given(s, x) == [s EXCEPT !.in = x]

----------------------------------------------------------------------------
(* Pure helpers of openFile *)

Last(s) == s[Len(s)]

\* listenAddress.split(':').at(-1): the characters after the last ':'
RECURSIVE LastSegment(_)
LastSegment(s) ==
    IF s = <<>> THEN <<>>
    ELSE IF Last(s) = ":" THEN <<>>
         ELSE LastSegment(SubSeq(s, 1, Len(s) - 1)) \o <<Last(s)>>

\* file.extension: the part after the last dot
Extension(f) == IF Len(f) >= 2 THEN Last(f) ELSE ""

\* file.path.endsWith(".excalidraw.md")
EndsWithExcalidrawMd(f) ==
    /\ Len(f) >= 3
    /\ f[Len(f) - 1] = "excalidraw"
    /\ f[Len(f)] = "md"

IsExcalidrawMd(f) == Extension(f) = "md" /\ EndsWithExcalidrawMd(f)

\* variant: the extension test is dropped, only composite files are filtered
IsSupportedAnyExtension(f, types) ==
    IF IsExcalidrawMd(f)
    THEN "excalidraw" \in types
    ELSE TRUE

\* variant: a composite file needs its base extension and the toggle
IsSupportedNeedsBoth(f, types) ==
    IF IsExcalidrawMd(f)
    THEN Extension(f) \in types /\ "excalidraw" \in types
    ELSE Extension(f) \in types

\* the file type filter: isSupported as it stands at "if (!isSupported) return"
IsSupported(f, types) ==
    IF IsExcalidrawMd(f)
    THEN "excalidraw" \in types
    ELSE Extension(f) \in types

\* this.adapter.getFullPath(file.path)
FullPath(f) == <<BasePath>> \o f

\* variant: the vault-relative path is passed instead of the absolute one
RemoteArgsRelative(addr, f) == << <<"--server">>, addr, <<"--remote">>, f >>

\* const args = ['--server', listenAddress, '--remote', absolutePath]
RemoteArgs(addr, f) == << <<"--server">>, addr, <<"--remote">>, FullPath(f) >>

----------------------------------------------------------------------------
(* Initial state: the state after the constructor *)

\* the settings the plugin is constructed with: every set of toggles with
\* a listen address that has a port, and one without a port
SettingsChoices ==
    [supportedFileTypes : (SUBSET TypeNames) \ {TypeNames},
     listenOn : {a \in ListenAddrs : LastSegment(a) # <<>>}]
      \cup [supportedFileTypes : {TypeNames},
            listenOn : {a \in ListenAddrs : LastSegment(a) = <<>>}]

Init ==
    /\ settings \in SettingsChoices
    /\ nvimPath \in {"", "nvim"}
    /\ termBinary \in {"", "term"}
    /\ process = 0
    /\ instance = 0
    /\ procs = [p \in Pids |-> [st |-> "none", ev |-> 0]]
    /\ timers = [p \in Pids |-> "none"]
    /\ opens = EmptyBag
    /\ last = [op |-> "init", branch |-> "", pre |-> <<0, 0>>, out |-> <<>>,
               done |-> TRUE, notes |-> <<>>, who |-> 0, file |-> NullFile, in |-> ""]
    /\ plans = <<>>

\* what no operation of the class assigns
Config == <<settings, nvimPath, termBinary, plans>>

----------------------------------------------------------------------------
(* close *)

\* variant: close() quits the session and leaves the process running
CloseOutNoKill(inst, proc, quitOk, killOk) ==
    (IF inst # 0 THEN <<QuitCall(inst, quitOk)>> ELSE <<>>) \o <<Notice("closed")>>

\* variant: close() kills the process before it quits the session
CloseOutKillFirst(inst, proc, quitOk, killOk) ==
    (IF proc # 0 THEN <<KillCall(proc, killOk)>> ELSE <<>>)
      \o (IF inst # 0 THEN <<QuitCall(inst, quitOk)>> ELSE <<>>)
      \o <<Notice("closed")>>

\* what close() calls and emits, in order
CloseOut(inst, proc, quitOk, killOk) ==
    (IF inst # 0 THEN <<QuitCall(inst, quitOk)>> ELSE <<>>)
      \o (IF proc # 0 THEN <<KillCall(proc, killOk)>> ELSE <<>>)
      \o <<Notice("closed")>>

\* variant: close() forgets to clear the process after the kill
CloseRefsKeepProcess(proc, inst) == <<proc, 0>>

\* <<this.process, this.instance>> when close() returns
CloseRefs(proc, inst) == <<0, 0>>

\* quitOk and killOk are the outcomes of quit() and kill(); an outcome is
\* drawn only for a call that is made
Close(quitOk, killOk) ==
    /\ instance = 0 => quitOk
    /\ process = 0 => killOk
    /\ process' = CloseRefs(process, instance)[1]
    /\ instance' = CloseRefs(process, instance)[2]
    /\ last' = LET out == CloseOut(instance, process, quitOk, killOk)
               IN Step("close", "", out, TRUE, NoticesOf(out))
    /\ UNCHANGED <<Config, procs, timers, opens>>

----------------------------------------------------------------------------
(* newInstance *)

\* variant: the terminal binary is not checked before the spawn
LaunchGuardNoTerminalCheck(proc, term, nvim) ==
    IF proc # 0 THEN "running"
    ELSE IF nvim = "" THEN "noNvim"
    ELSE "spawn"

\* variant: the "already running" return is missing
LaunchGuardNoRunningCheck(proc, term, nvim) ==
    IF term = "" THEN "noTerminal"
    ELSE IF nvim = "" THEN "noNvim"
    ELSE "spawn"

\* the early returns of newInstance
LaunchGuard(proc, term, nvim) ==
    IF proc # 0 THEN "running"
    ELSE IF term = "" THEN "noTerminal"
    ELSE IF nvim = "" THEN "noNvim"
    ELSE "spawn"

FreePids == {p \in Pids : procs[p].st = "none"}
NextPid == CHOOSE p \in FreePids : \A q \in FreePids : p <= q

\* variant: a spawn without a pid keeps the handle and schedules the probe
SpawnKeepsPartial(o) ==
    CASE o \in {"throws", "nopid"} ->
           /\ FreePids # {}
           /\ process' = 0
           /\ instance' = 0
           /\ timers' = [timers EXCEPT ![NextPid] = "pending"]
           /\ last' = LET out == <<SpawnCall(0), Notice("spawnError")>>
                      IN Given(Step("newInstance", "spawnThrew", out, TRUE, NoticesOf(out)), o)
           /\ UNCHANGED procs
      [] o \in {"ok", "attachThrows"} ->
           /\ FreePids # {}
           /\ process' = NextPid
           /\ instance' = NextPid
           /\ procs' = [procs EXCEPT ![NextPid] = [st |-> "live", ev |-> 0]]
           /\ timers' = [timers EXCEPT ![NextPid] = "pending"]
           /\ last' = Given(Step("newInstance", "spawned", <<SpawnCall(NextPid)>>, TRUE, <<>>),
                            o)

\* the try block: spawn, handler registration, attach, probe timer
Spawn(o) ==
    CASE o = "throws" ->
           /\ process' = 0
           /\ instance' = 0
           /\ last' = LET out == <<SpawnCall(0), Notice("spawnError")>>
                      IN Given(Step("newInstance", "spawnThrew", out, TRUE, NoticesOf(out)), o)
           /\ UNCHANGED <<procs, timers>>
      [] o = "nopid" ->
           /\ process' = 0
           /\ instance' = instance
           /\ last' = LET out == <<SpawnCall(0), Notice("noProcessObject")>>
                      IN Given(Step("newInstance", "noPid", out, TRUE, NoticesOf(out)), o)
           /\ UNCHANGED <<procs, timers>>
      [] o = "ok" ->
           /\ FreePids # {}
           /\ process' = NextPid
           /\ instance' = NextPid
           /\ procs' = [procs EXCEPT ![NextPid] = [st |-> "live", ev |-> 0]]
           /\ timers' = [timers EXCEPT ![NextPid] = "pending"]
           /\ last' = Given(Step("newInstance", "spawned", <<SpawnCall(NextPid)>>, TRUE, <<>>),
                            o)
      [] o = "attachThrows" ->
           /\ FreePids # {}
           /\ process' = 0
           /\ instance' = 0
           /\ procs' = [procs EXCEPT ![NextPid] = [st |-> "live", ev |-> 0]]
           /\ last' = LET out == <<SpawnCall(NextPid), Notice("spawnError")>>
                      IN Given(Step("newInstance", "attachThrew", out, TRUE, NoticesOf(out)), o)
           /\ UNCHANGED timers

\* a return before the try block: one notice, nothing else
Refuse(branch, kind) ==
    /\ last' = Step("newInstance", branch, <<Notice(kind)>>, TRUE, <<Notice(kind)>>)
    /\ UNCHANGED <<process, instance, procs, timers>>

\* o is the outcome of spawn and attach, drawn only when the try block runs
NewInstance(o) ==
    /\ LaunchGuard(process, termBinary, nvimPath) # "spawn" => o = "ok"
    /\ LET g == LaunchGuard(process, termBinary, nvimPath)
       IN CASE g = "running" -> Refuse("running", "alreadyRunning")
            [] g = "noTerminal" -> Refuse("noTerminal", "unknownTerminal")
            [] g = "noNvim" -> Refuse("noNvim", "nvimPathNotConfigured")
            [] g = "spawn" -> Spawn(o)
    /\ UNCHANGED <<Config, opens>>

----------------------------------------------------------------------------
(* lifecycle handlers registered on the child process *)

\* variant: the guarded handlers clear the process and forget the session
HandlerRefsProcessOnly(e, proc, inst) ==
    IF e = "error" THEN <<0, 0>>
    ELSE IF proc # 0 THEN <<0, inst>>
    ELSE <<proc, inst>>

\* <<this.process, this.instance>> after the handler of event e
HandlerRefs(e, proc, inst) ==
    IF e = "error" THEN <<0, 0>>
    ELSE IF proc # 0 THEN <<0, 0>>
    ELSE <<proc, inst>>

\* variant: the 'error' handler only logs
HandlerOutSilent(e) == <<>>

\* what the handler of event e emits
HandlerOut(e) ==
    IF e = "error" THEN <<Notice("processError")>> ELSE <<>>

RECURSIVE Delivered(_)
Delivered(n) == IF n = 0 THEN 0 ELSE procs[n].ev + Delivered(n - 1)

\* child p emits event e; its handlers exist once newInstance has
\* registered them, whether or not this.process still denotes p
Event(p, e) ==
    /\ procs[p].st = "live"
    /\ Delivered(MaxSpawns) < MaxEvents
    /\ procs' = [procs EXCEPT ![p].ev = @ + 1]
    /\ process' = HandlerRefs(e, process, instance)[1]
    /\ instance' = HandlerRefs(e, process, instance)[2]
    /\ last' = By(Step("event", e, HandlerOut(e), TRUE, NoticesOf(HandlerOut(e))), p)
    /\ UNCHANGED <<Config, timers, opens>>

----------------------------------------------------------------------------
(* liveness probe: the setTimeout callback of newInstance *)

\* variant: the callback evaluates without testing this.instance first
TimerFireUnguarded(p) ==
    /\ timers[p] = "pending"
    /\ timers' = [timers EXCEPT ![p] = "eval"]
    /\ last' = By(Step("timer", "eval", <<EvalCall(instance)>>, FALSE, <<>>), p)
    /\ UNCHANGED <<Config, process, instance, procs, opens>>

\* the timer of launch p fires: up to "await this.instance.eval('1')"
TimerFire(p) ==
    /\ timers[p] = "pending"
    /\ IF instance = 0
       THEN /\ timers' = [timers EXCEPT ![p] = "none"]
            /\ last' = By(Step("timer", "noInstance", <<>>, TRUE, <<>>), p)
       ELSE /\ timers' = [timers EXCEPT ![p] = "eval"]
            /\ last' = By(Step("timer", "eval", <<EvalCall(instance)>>, FALSE, <<>>), p)
    /\ UNCHANGED <<Config, process, instance, procs, opens>>

\* the continuation after "await this.instance.eval('1')"
EvalDone(p, ok, quitOk, killOk) ==
    /\ timers[p] = "eval"
    /\ ok => quitOk /\ killOk
    /\ ~ok /\ instance = 0 => quitOk
    /\ ~ok /\ process = 0 => killOk
    /\ timers' = [timers EXCEPT ![p] = "none"]
    /\ IF ok
       THEN /\ last' = Given(By(Step("evalDone", "connected", <<Notice("connected")>>,
                                     TRUE, <<Notice("connected")>>), p), "ok")
            /\ UNCHANGED <<process, instance>>
       ELSE /\ process' = CloseRefs(process, instance)[1]
            /\ instance' = CloseRefs(process, instance)[2]
            /\ last' = LET out == <<Notice("rpcFailed")>>
                                    \o CloseOut(instance, process, quitOk, killOk)
                       IN Given(By(Step("evalDone", "failed", out, TRUE, NoticesOf(out)), p),
                                "fail")
    /\ UNCHANGED <<Config, procs, opens>>

----------------------------------------------------------------------------
(* openFile *)

\* an openFile call suspended at an await or waiting for its callback
ProbeTask(f) == [ph |-> "probe", file |-> f, notes |-> <<>>]
ExecTask(notes) == [ph |-> "exec", file |-> NullFile, notes |-> notes]

Put(bag, t) == bag (+) SetToBag({t})
Take(bag, t) == bag (-) SetToBag({t})

\* canConnect without a probe: an owned session and process both exist
Owned(proc, inst) == inst # 0 /\ proc # 0

\* variant: an unreachable instance makes openFile launch one
NotFoundLaunching(rest, f, r, op) ==
    /\ opens' = rest
    /\ IF process = 0 /\ FreePids # {}
       THEN /\ process' = NextPid
            /\ instance' = NextPid
            /\ procs' = [procs EXCEPT ![NextPid] = [st |-> "live", ev |-> 0]]
            /\ timers' = [timers EXCEPT ![NextPid] = "pending"]
            /\ last' = Given(On(Step(op, "notFound", <<SpawnCall(NextPid)>>, TRUE, <<>>),
                                f), r)
       ELSE /\ last' = Given(On(Step(op, "notFound", <<Notice("notFound")>>, TRUE,
                                     <<Notice("notFound")>>), f), r)
            /\ UNCHANGED <<process, instance, procs, timers>>

\* "if (!canConnect)": the not-found notice and return; rest holds the
\* other calls in flight
NotFound(rest, f, r, op) ==
    /\ opens' = rest
    /\ last' = Given(On(Step(op, "notFound", <<Notice("notFound")>>, TRUE,
                             <<Notice("notFound")>>), f), r)
    /\ UNCHANGED <<process, instance, procs, timers>>

\* "Execute --remote Command": pre holds what this run emitted before it
RemoteOpen(rest, f, pre, r, x, op) ==
    LET call == ExecCall(RemoteArgs(settings.listenOn, f))
    IN /\ IF x = "started"
          THEN /\ opens' = Put(rest, ExecTask(NoticesOf(pre)))
               /\ last' = Given(On(Step(op, "exec", pre \o <<call>>, FALSE, NoticesOf(pre)),
                                   f), r)
          ELSE /\ opens' = rest
               /\ last' = LET out == pre \o <<call, Notice("execThrew")>>
                          IN Given(On(Step(op, "execThrew", out, TRUE, NoticesOf(out)), f),
                                   r)
       /\ UNCHANGED <<process, instance, procs, timers>>

\* openFile up to its first await (or to its end when it does not await);
\* x is the outcome of the execFile call, drawn only when it is made
OpenFile(f, x) ==
    /\ BagCardinality(opens) < MaxOpen
    /\ ~(f # NullFile /\ IsSupported(f, settings.supportedFileTypes) /\ nvimPath # ""
           /\ Owned(process, instance)) => x = "started"
    /\ CASE f = NullFile ->
              /\ last' = On(Step("openFile", "null", <<>>, TRUE, <<>>), f)
              /\ UNCHANGED <<process, instance, procs, timers, opens>>
         [] f # NullFile /\ ~IsSupported(f, settings.supportedFileTypes) ->
              /\ last' = On(Step("openFile", "unsupported", <<>>, TRUE, <<>>), f)
              /\ UNCHANGED <<process, instance, procs, timers, opens>>
         [] f # NullFile /\ IsSupported(f, settings.supportedFileTypes) /\ nvimPath = "" ->
              /\ last' = On(Step("openFile", "noPath", <<Notice("pathUnknown")>>, TRUE,
                                 <<Notice("pathUnknown")>>), f)
              /\ UNCHANGED <<process, instance, procs, timers, opens>>
         [] f # NullFile /\ IsSupported(f, settings.supportedFileTypes) /\ nvimPath # "" ->
              IF Owned(process, instance)
              THEN RemoteOpen(opens, f, <<>>, "", x, "openFile")
              ELSE IF LastSegment(settings.listenOn) # <<>>
              THEN /\ opens' = Put(opens, ProbeTask(f))
                   /\ last' = On(Step("openFile", "probing",
                                      <<ProbeCall(LastSegment(settings.listenOn))>>, FALSE,
                                      <<>>), f)
                   /\ UNCHANGED <<process, instance, procs, timers>>
              ELSE NotFound(opens, f, "", "openFile")
    /\ UNCHANGED Config

\* the continuation after "await isPortInUse(port)"
ProbeDone(t, r, x) ==
    /\ BagIn(t, opens)
    /\ t.ph = "probe"
    /\ r # "inUse" => x = "started"
    /\ IF r = "inUse"
       THEN RemoteOpen(Take(opens, t), t.file, <<Notice("openingExternal")>>, r, x,
                       "probeDone")
       ELSE NotFound(Take(opens, t), t.file, r, "probeDone")
    /\ UNCHANGED Config

\* the execFile callback
ExecDone(t, r) ==
    /\ BagIn(t, opens)
    /\ t.ph = "exec"
    /\ opens' = Take(opens, t)
    /\ IF r = "ok"
       THEN last' = Given(Step("execDone", "ok", <<>>, TRUE, t.notes), r)
       ELSE last' = Given(Step("execDone", "failed", <<Notice("remoteOpenFailed")>>, TRUE,
                               t.notes \o <<Notice("remoteOpenFailed")>>), r)
    /\ UNCHANGED <<Config, process, instance, procs, timers>>

----------------------------------------------------------------------------
(* getBuffers *)

\* a getBuffers call suspended at "await this.instance.buffers"
BuffersTask == [ph |-> "buffers", file |-> NullFile, notes |-> <<>>]

\* variant: a transport failure is reported and thrown on to the caller
BuffersOutRethrows(r) ==
    IF r = "ok" THEN <<Return("buffers")>>
    ELSE <<Notice("buffersError"), Eff("throw", "", 0, <<>>)>>

\* what the continuation emits and what the call resolves with
BuffersOut(r) ==
    IF r = "ok" THEN <<Return("buffers")>>
    ELSE <<Notice("buffersError"), Return("empty")>>

\* getBuffers up to "await this.instance.buffers"
GetBuffers ==
    /\ BagCardinality(opens) < MaxOpen
    /\ IF instance = 0
       THEN /\ last' = Step("getBuffers", "noInstance", <<Return("empty")>>, TRUE, <<>>)
            /\ UNCHANGED opens
       ELSE /\ opens' = Put(opens, BuffersTask)
            /\ last' = Step("getBuffers", "awaiting", <<BuffersCall(instance)>>, FALSE, <<>>)
    /\ UNCHANGED <<Config, process, instance, procs, timers>>

\* the continuation after "await this.instance.buffers"
BuffersDone(t, r) ==
    /\ BagIn(t, opens)
    /\ t.ph = "buffers"
    /\ opens' = Take(opens, t)
    /\ last' = Given(Step("buffersDone", IF r = "ok" THEN "ok" ELSE "failed", BuffersOut(r),
                          TRUE, NoticesOf(BuffersOut(r))), r)
    /\ UNCHANGED <<Config, process, instance, procs, timers>>

----------------------------------------------------------------------------
(* launch planning of newInstance: spawnArgs and spawnOptions *)

\* terminal paths as sequences of separators and names
TermPaths ==
    { <<"C:", "\\", "alacritty.exe">>, <<"wezterm.exe">>, <<"kitty.exe">>,
      <<"C:", "\\", "WT.EXE">>, <<"powershell.exe">>, <<"pwsh.exe">>, <<"cmd.exe">>,
      <<"C:", "\\", "foo.exe">>, <<"C:", "/", "wt.exe">>, <<"wt">>, <<"C:", "\\">> }

Platforms == {"win32", "linux"}
\* this.apiKey ("" = not set)
ApiKeys == {"", "key"}
\* os.userInfo().shell ("" = none)
UserShells == {"", "zsh"}
\* process.env as a set of <<name, value>>
ProcessEnvs == { {<<"PATH", "bin">>} }

\* what one run of the planning code reads
PlanInputs ==
    [term : TermPaths, nvim : {"nvim"}, listen : ListenAddrs, platform : Platforms,
     apiKey : ApiKeys, userShell : UserShells, base : {BasePath}, env : ProcessEnvs]

\* String.prototype.toLowerCase on the names above
Lower(t) ==
    CASE t = "WT.EXE" -> "wt.exe"
      [] t = "C:" -> "c:"
      [] OTHER -> t

\* s.split(sep).pop(): what follows the last sep
RECURSIVE LastPart(_, _)
LastPart(s, sep) ==
    IF s = <<>> THEN <<>>
    ELSE IF Last(s) = sep THEN <<>>
         ELSE LastPart(SubSeq(s, 1, Len(s) - 1), sep) \o <<Last(s)>>

\* termPath.split('\\').pop()?.toLowerCase() || ''
TerminalName(term) ==
    LET part == LastPart(term, "\\")
    IN [k \in 1..Len(part) |-> Lower(part[k])]

\* the '-e' form of spawnArgs; every argument is a sequence of string pieces
GenericArgs(nvim, listen) == << <<"-e">>, <<nvim>>, <<"--listen">>, listen >>

\* spawnOptions.shell: false, true, or the path of a shell
Shell(use, path) == [use |-> use, path |-> path]

\* { ...process.env, ...extraEnvVars }
MergeEnv(env, extra) ==
    {kv \in env : \A x \in extra : x[1] # kv[1]} \cup extra

\* variant: an unknown Windows terminal is started through the shell
PlanUnknownViaShell(i) ==
    LET name == TerminalName(i.term)
        known == {<<"alacritty.exe">>, <<"wezterm.exe">>, <<"kitty.exe">>, <<"wt.exe">>,
                  <<"powershell.exe">>, <<"pwsh.exe">>, <<"cmd.exe">>}
    IN [exe |-> i.term,
        args |-> GenericArgs(i.nvim, i.listen),
        shell |-> IF i.platform = "win32" /\ name \in known THEN Shell(FALSE, "")
                  ELSE Shell(TRUE, ""),
        cwd |-> i.base,
        env |-> MergeEnv(i.env, {}),
        detached |-> FALSE]

\* variant: on other platforms the login shell is put into the arguments
PlanArgsViaShell(i) ==
    [exe |-> i.term,
     args |-> IF i.platform = "win32" THEN GenericArgs(i.nvim, i.listen)
              ELSE << <<"-e">>, <<i.userShell>>, <<"-c">>, <<i.nvim>>, <<"--listen">>,
                      i.listen >>,
     shell |-> Shell(FALSE, ""),
     cwd |-> i.base,
     env |-> MergeEnv(i.env, {}),
     detached |-> FALSE]

\* spawnArgs and spawnOptions as newInstance builds them from the inputs i
Plan(i) ==
    LET name == TerminalName(i.term)
        extra == IF i.apiKey # "" THEN {<<"OBSIDIAN_REST_API_KEY", i.apiKey>>} ELSE {}
        command == <<"Start-Process -FilePath '", i.nvim, "' -ArgumentList '--listen ">>
                     \o i.listen \o <<"' -WindowStyle Normal">>
        form ==
            IF i.platform = "win32"
            THEN IF name \in {<<"alacritty.exe">>, <<"wezterm.exe">>, <<"kitty.exe">>}
                 THEN <<GenericArgs(i.nvim, i.listen), Shell(FALSE, "")>>
                 ELSE IF name = <<"wt.exe">>
                 THEN << << <<"new-tab">>, <<"--title">>, <<"Neovim">>, <<i.nvim>>,
                            <<"--listen">>, i.listen >>, Shell(FALSE, "") >>
                 ELSE IF name \in {<<"powershell.exe">>, <<"pwsh.exe">>}
                 THEN << << <<"-ExecutionPolicy">>, <<"Bypass">>, <<"-NoProfile">>,
                            <<"-NoExit">>, <<"-Command">>, command >>, Shell(TRUE, "") >>
                 ELSE IF name = <<"cmd.exe">>
                 THEN << << <<"/c">>, <<"start">>, <<"\"Neovim\"">>,
                            <<"\"", i.nvim, "\"">>, <<"--listen">>, i.listen >>,
                         Shell(TRUE, "") >>
                 ELSE <<GenericArgs(i.nvim, i.listen), Shell(FALSE, "")>>
            ELSE <<GenericArgs(i.nvim, i.listen), Shell(TRUE, i.userShell)>>
    IN [exe |-> i.term,
        args |-> form[1],
        shell |-> form[2],
        cwd |-> i.base,
        env |-> MergeEnv(i.env, extra),
        detached |-> FALSE]

\* one run of the planning code on the inputs i; the run before it is kept
PlanRun(i) ==
    /\ plans' = <<[in |-> i, plan |-> Plan(i)]>>
                   \o (IF plans = <<>> THEN <<>> ELSE <<plans[1]>>)
    /\ UNCHANGED <<settings, nvimPath, termBinary, process, instance, procs, timers, opens,
                   last>>

\* planning is reached with both binaries resolved
PlanInit ==
    /\ Init
    /\ termBinary # ""
    /\ nvimPath # ""
    /\ settings.supportedFileTypes = {}

PlanNext == \E i \in PlanInputs : PlanRun(i)

PlanSpec == PlanInit /\ [][PlanNext]_vars

----------------------------------------------------------------------------
(* Specification *)

Next ==
    \/ \E o \in SpawnOutcomes : NewInstance(o)
    \/ \E q \in BOOLEAN, k \in BOOLEAN : Close(q, k)
    \/ \E p \in Pids, e \in Events : Event(p, e)
    \/ \E p \in Pids : TimerFire(p)
    \/ \E p \in Pids, ok \in BOOLEAN, q \in BOOLEAN, k \in BOOLEAN : EvalDone(p, ok, q, k)
    \/ \E f \in Files \cup {NullFile}, x \in ExecStarts : OpenFile(f, x)
    \/ \E t \in BagToSet(opens), r \in ProbeResults, x \in ExecStarts : ProbeDone(t, r, x)
    \/ \E t \in BagToSet(opens), r \in ExecResults : ExecDone(t, r)
    \/ GetBuffers
    \/ \E t \in BagToSet(opens), r \in BuffersResults : BuffersDone(t, r)

Spec == Init /\ [][Next]_vars

----------------------------------------------------------------------------
(* Properties *)

Has(out, t) == SelectKind(out, t) # <<>>
ClosePath == last.op = "close" \/ (last.op = "evalDone" /\ last.in = "fail")

\* C1: in every state between handler runs the session is present only
\* if the process is present, and a handler run that clears one of the
\* two references leaves both absent.
C1_SessionNeedsProcess ==
    /\ instance # 0 => process # 0
    /\ \/ last.pre[1] # 0 /\ process = 0
       \/ last.pre[2] # 0 /\ instance = 0
       => process = 0 /\ instance = 0

\* a lifecycle handler has cleared an owned pair
C1_Witness ==
    /\ last.op = "event"
    /\ last.pre[1] # 0 /\ last.pre[2] # 0
    /\ process = 0 /\ instance = 0

\* C2: newInstance called while a process reference exists spawns nothing,
\* leaves both references as they were and only reports "already running".
C2_LaunchWhileRunningRefused ==
    last.op = "newInstance" /\ last.pre[1] # 0 =>
        /\ process = last.pre[1]
        /\ instance = last.pre[2]
        /\ ~Has(last.out, "spawn")
        /\ last.out = <<Notice("alreadyRunning")>>

\* newInstance has run while a process and its session were owned
C2_Witness ==
    /\ last.op = "newInstance"
    /\ last.pre[1] # 0 /\ last.pre[2] # 0
    /\ FreePids # {}

\* C3 (as claimed): after a lifecycle event both references are absent, and
\* an event of a child that has already delivered one changes neither the
\* references nor emits anything.
C3_SecondEventHasNoEffect ==
    last.op = "event" =>
        /\ process = 0 /\ instance = 0
        /\ procs[last.who].ev >= 2 =>
              /\ <<process, instance>> = last.pre
              /\ last.out = <<>>

\* C4: a close() directly following a close() changes no state, issues no
\* quit and no kill, and leaves both references absent.
C4_CloseIdempotent ==
    [][last.op = "close" /\ last'.op = "close" =>
          /\ UNCHANGED <<process, instance, procs, timers, opens, Config>>
          /\ process' = 0 /\ instance' = 0
          /\ ~Has(last'.out, "quit")
          /\ ~Has(last'.out, "kill")]_vars

\* close() has run with both references already absent, after a launch
C4_Witness ==
    /\ last.op = "close"
    /\ last.pre = <<0, 0>>
    /\ \E p \in Pids : procs[p].st = "live"

\* C5: a close() that finds a session calls quit on it before any kill,
\* and both references are absent when close() returns, whatever quit and
\* kill reported.
C5_QuitBeforeKill ==
    ClosePath =>
        /\ process = 0 /\ instance = 0
        /\ last.pre[2] # 0 =>
              \E i \in DOMAIN last.out :
                  /\ last.out[i].t = "quit"
                  /\ \A j \in DOMAIN last.out : last.out[j].t = "kill" => i < j

\* close() has run with quit throwing and kill reporting failure
C5_Witness ==
    /\ last.op = "close"
    /\ \E p \in Pids : last.out = <<QuitCall(p, FALSE), KillCall(p, FALSE), Notice("closed")>>
    /\ process = 0 /\ instance = 0

\* C6: an openFile request whose extension is not in the supported set,
\* and which is no composite file, invokes no remote-open command and
\* performs no port probe: the call ends at once and emits nothing.
C6_UnsupportedNeverRouted ==
    /\ last.op = "openFile"
    /\ last.file # NullFile
    /\ ~IsExcalidrawMd(last.file)
    /\ Extension(last.file) \notin settings.supportedFileTypes
    => /\ last.out = <<>>
       /\ last.done
       /\ <<process, instance>> = last.pre

\* openFile has run on an unsupported, non-composite file while a linked
\* instance was owned and the target binary and a port were configured
C6_Witness ==
    /\ last.op = "openFile"
    /\ last.file = <<"a", "md">>
    /\ "md" \notin settings.supportedFileTypes
    /\ last.pre[1] # 0 /\ last.pre[2] # 0
    /\ nvimPath # ""
    /\ LastSegment(settings.listenOn) # <<>>

Routed(out) == Has(out, "probe") \/ Has(out, "exec")

C8_ProbeDecidesRemoteOpen ==
    /\ ( /\ last.op = "openFile"
         /\ last.file # NullFile
         /\ IsSupported(last.file, settings.supportedFileTypes)
         /\ nvimPath # ""
         /\ ~(last.pre[1] # 0 /\ last.pre[2] # 0) )
       => /\ ~Has(last.out, "exec")
          /\ IF LastSegment(settings.listenOn) # <<>>
             THEN last.out = <<ProbeCall(LastSegment(settings.listenOn))>> /\ ~last.done
             ELSE last.out = <<Notice("notFound")>> /\ last.done
    /\ last.op = "probeDone" /\ last.in # "inUse"
       => last.out = <<Notice("notFound")>> /\ last.done
    /\ last.op = "probeDone" /\ last.in = "inUse"
       => SelectKind(last.out, "exec") =
            << ExecCall(<< <<"--server">>, settings.listenOn,
                           <<"--remote">>, <<BasePath>> \o last.file >>) >>
    /\ last.op = "execDone" => ~Has(last.out, "exec") /\ last.done

\* the probe found the port in use and the command was issued
C8_Witness ==
    /\ last.op = "probeDone"
    /\ last.in = "inUse"
    /\ last.pre = <<0, 0>>
    /\ Has(last.out, "exec")

OpenSteps == {"openFile", "probeDone", "execDone"}

\* C9: no run of openFile, of its continuation after the probe or of the
\* command callback changes the process or session reference or spawns.
C9_OpenFileKeepsOwnedState ==
    last.op \in OpenSteps =>
        /\ <<process, instance>> = last.pre
        /\ ~Has(last.out, "spawn")

\* openFile has reported an unreachable instance with nothing owned
C9_Witness ==
    /\ last.op = "probeDone"
    /\ last.in = "free"
    /\ last.pre = <<0, 0>>
    /\ FreePids # {}
    /\ termBinary # ""

\* notices that report a failure; the others confirm a transition
FailureKinds ==
    {"unknownTerminal", "nvimPathNotConfigured", "noProcessObject", "spawnError",
     "processError", "rpcFailed", "pathUnknown", "notFound", "remoteOpenFailed",
     "execThrew"}

RECURSIVE Failures(_)
Failures(s) ==
    IF s = <<>> THEN <<>>
    ELSE IF Head(s).k \in FailureKinds THEN <<Head(s)>> \o Failures(Tail(s))
         ELSE Failures(Tail(s))

ConfigFailure ==
    last.op = "newInstance" /\ last.pre[1] = 0 /\ (termBinary = "" \/ nvimPath = "")
SpawnFailure ==
    last.op = "newInstance" /\ last.in \in {"throws", "nopid", "attachThrows"}
ErrorEvent == last.op = "event" /\ last.branch = "error"
ProbeFailure == last.op = "evalDone" /\ last.in = "fail"
ReachabilityFailure ==
    \/ last.op = "probeDone" /\ last.in # "inUse"
    \/ /\ last.op = "openFile"
       /\ last.file # NullFile
       /\ IsSupported(last.file, settings.supportedFileTypes)
       /\ nvimPath # ""
       /\ ~(last.pre[1] # 0 /\ last.pre[2] # 0)
       /\ LastSegment(settings.listenOn) = <<>>
RemoteOpenFailure ==
    \/ last.op = "execDone" /\ last.in = "error"
    \/ last.op \in {"openFile", "probeDone"} /\ last.branch = "execThrew"

FailurePath ==
    \/ ConfigFailure
    \/ SpawnFailure
    \/ ErrorEvent
    \/ ProbeFailure
    \/ ReachabilityFailure
    \/ RemoteOpenFailure

\* C10 (as claimed): every failure path emits exactly one notification from
\* the start of the failing operation to the end of its handling.
C10_ExactlyOneNotice ==
    last.done /\ FailurePath => Len(last.notes) = 1

\* C10 (amended): every failure path emits exactly one failure notice. It
\* is the only notice of the path, except that a liveness-probe failure is
\* followed by the "closed" notice of the close() it calls, and that a
\* remote-open failure after a successful port probe is preceded by the
\* "opening in external Neovim" notice.
C10_OneFailureNotice ==
    last.done /\ FailurePath =>
        /\ Len(Failures(last.notes)) = 1
        /\ ProbeFailure => last.notes = <<Notice("rpcFailed"), Notice("closed")>>
        /\ RemoteOpenFailure =>
              \/ last.notes = Failures(last.notes)
              \/ last.notes = <<Notice("openingExternal")>> \o Failures(last.notes)
        /\ ~ProbeFailure /\ ~RemoteOpenFailure => Len(last.notes) = 1

\* the liveness probe has failed and its shutdown has run
C10_Witness ==
    /\ last.op = "evalDone"
    /\ last.in = "fail"
    /\ last.done
    /\ Len(last.notes) = 2

\* C11: newInstance called with the terminal binary unresolved or the
\* target binary path empty reports the configuration error and returns:
\* no spawn call, both references as before, and no child ever gets
\* handlers or a probe timer.
C11_ConfigErrorAbortsLaunch ==
    termBinary = "" \/ nvimPath = "" =>
        /\ \A p \in Pids : procs[p].st = "none" /\ timers[p] = "none"
        /\ last.op = "newInstance" =>
              /\ last.out = <<Notice(IF termBinary = "" THEN "unknownTerminal"
                                     ELSE "nvimPathNotConfigured")>>
              /\ <<process, instance>> = last.pre
              /\ last.pre = <<0, 0>>

\* newInstance has run with the target binary resolved and no terminal
C11_Witness ==
    /\ last.op = "newInstance"
    /\ termBinary = ""
    /\ nvimPath # ""

\* C12: when the spawn call throws or returns no handle or no pid, the
\* failure is reported with one notice and every part of the supervisor
\* state is as before the call: both references absent, no child with
\* handlers, no probe timer.
C12_FailedSpawnLeavesState ==
    [][last'.op = "newInstance" /\ last'.in \in {"throws", "nopid"} =>
          /\ UNCHANGED <<process, instance, procs, timers, opens, Config>>
          /\ process' = 0 /\ instance' = 0
          /\ Len(NoticesOf(last'.out)) = 1
          /\ last'.out[Len(last'.out)].k \in {"spawnError", "noProcessObject"}]_vars

\* a spawn that returned no pid has been handled after an earlier launch
C12_Witness ==
    /\ last.op = "newInstance"
    /\ last.in = "nopid"
    /\ \E p \in Pids : procs[p].st = "live"
    /\ FreePids # {}

\* C13: the continuation of the liveness probe leaves both references as
\* they were when the evaluation succeeded; when it failed it reports the
\* failure, quits the session and kills the process that are owned, clears
\* both references, and neither spawns nor evaluates again; the timer of
\* the launch is spent either way.
C13_ProbeOutcome ==
    last.op = "evalDone" =>
        /\ timers[last.who] = "none"
        /\ last.in = "ok" =>
              /\ <<process, instance>> = last.pre
              /\ last.out = <<Notice("connected")>>
        /\ last.in = "fail" =>
              /\ process = 0 /\ instance = 0
              /\ last.out[1] = Notice("rpcFailed")
              /\ last.pre[2] # 0 => Has(last.out, "quit")
              /\ last.pre[1] # 0 => Has(last.out, "kill")
              /\ ~Has(last.out, "spawn")
              /\ ~Has(last.out, "eval")

\* the probe of a launch has failed while its pair was still owned
C13_Witness ==
    /\ last.op = "evalDone"
    /\ last.in = "fail"
    /\ last.pre[1] = last.who /\ last.pre[2] = last.who
    /\ Has(last.out, "kill")

\* C16: getBuffers resolves with the empty list, without a notice and
\* without a call on the session, when no session is owned; when the
\* buffer query rejects it reports once and resolves with the empty list
\* instead of throwing; no run of getBuffers changes a reference.
C16_GetBuffersNeverThrows ==
    last.op \in {"getBuffers", "buffersDone"} =>
        /\ <<process, instance>> = last.pre
        /\ ~Has(last.out, "throw")
        /\ last.op = "getBuffers" /\ last.pre[2] = 0 => last.out = <<Return("empty")>>
        /\ last.op = "buffersDone" /\ last.in = "error" =>
              /\ SelectKind(last.out, "return") = <<Return("empty")>>
              /\ Len(NoticesOf(last.out)) = 1

\* a buffer query has rejected after the session it was sent to was cleared
C16_Witness ==
    /\ last.op = "buffersDone"
    /\ last.in = "error"
    /\ instance = 0
    /\ \E p \in Pids : procs[p].st = "live"

\* calls made on this.process or this.instance
Dereferences == {"eval", "quit", "kill", "buffers"}

\* C17: however lifecycle events interleave with the liveness probe, the
\* openFile probe, getBuffers and close(), no run calls a method on a
\* reference that is cleared, no run throws, and the two references are
\* both absent or both present.
C17_NoClearedDereference ==
    /\ (process = 0) <=> (instance = 0)
    /\ ~Has(last.out, "throw")
    /\ \A i \in 1..Len(last.out) :
          last.out[i].t \in Dereferences => last.out[i].n # 0

\* the probe of a launch failed after a lifecycle event had cleared the
\* references it was sent on
C17_Witness ==
    /\ last.op = "evalDone"
    /\ last.in = "fail"
    /\ last.pre = <<0, 0>>
    /\ procs[last.who].ev > 0
    /\ opens # EmptyBag

\* C18: a lifecycle event of a child that is not the owned one leaves the
\* references of the child launched after it as they are.
C18_StaleEventKeepsNewRefs ==
    last.op = "event" /\ last.pre[1] # 0 /\ last.pre[1] # last.who =>
        <<process, instance>> = last.pre

\* C19: the probe timer of a launch evaluates on, quits and kills only
\* the session and process of that launch.
C19_ProbeTargetsOwnLaunch ==
    last.op \in {"timer", "evalDone"} =>
        \A i \in 1..Len(last.out) :
            last.out[i].t \in {"eval", "quit", "kill"} => last.out[i].n = last.who

\* the children a run had in hand: the owned one when it started and the
\* ones it spawned
Held(s) ==
    ({s.pre[1]} \cup {s.out[i].n : i \in {j \in 1..Len(s.out) : s.out[j].t = "spawn"}}) \ {0}

\* C20: a run that ends with the process reference absent leaves no child
\* it had in hand alive and unsignalled: each has emitted a lifecycle
\* event or was sent SIGTERM by the run.
C20_NoOrphanedProcess ==
    process = 0 =>
        \A p \in Held(last) :
            \/ procs[p].ev > 0
            \/ \E i \in 1..Len(last.out) : last.out[i].t = "kill" /\ last.out[i].n = p

\* the inputs the planner is said to depend on
FourInputs(i) == <<i.term, i.nvim, i.listen, i.platform>>

TwoRuns == Len(plans) = 2

\* C14 as stated: two runs of the planning with the same terminal path,
\* target path, listen address and platform build the same plan
\* (arguments, shell mode, working directory, environment).
C14_PlanOfFourInputs ==
    TwoRuns /\ FourInputs(plans[1].in) = FourInputs(plans[2].in) =>
        plans[1].plan = plans[2].plan

\* C14 amended: two runs with the same four inputs build the same
\* executable, argument vector, shell on/off and detached flag, and on
\* win32 the same shell option altogether; the shell path used on other
\* platforms, the environment and the working directory are not claimed.
C14_ArgsOfFourInputs ==
    TwoRuns /\ FourInputs(plans[1].in) = FourInputs(plans[2].in) =>
        /\ plans[1].plan.exe = plans[2].plan.exe
        /\ plans[1].plan.args = plans[2].plan.args
        /\ plans[1].plan.shell.use = plans[2].plan.shell.use
        /\ plans[1].plan.detached = plans[2].plan.detached
        /\ plans[1].in.platform = "win32" => plans[1].plan.shell = plans[2].plan.shell

\* two runs agree on the four inputs and differ in login shell and API key
C14_Witness ==
    /\ TwoRuns
    /\ FourInputs(plans[1].in) = FourInputs(plans[2].in)
    /\ plans[1].in.platform = "linux"
    /\ plans[1].in.userShell # plans[2].in.userShell
    /\ plans[1].in.apiKey # plans[2].in.apiKey

\* the terminal families the planner is said to recognise, by name with
\* and without the .exe suffix
FamilyNames ==
    {"alacritty", "wezterm", "kitty", "wt", "powershell", "pwsh", "cmd",
     "alacritty.exe", "wezterm.exe", "kitty.exe", "wt.exe", "powershell.exe", "pwsh.exe",
     "cmd.exe"}

\* the file name of a path, after either separator, in lower case
BaseName(term) ==
    IF term = <<>> \/ Last(term) \in {"\\", "/"} THEN "" ELSE Lower(Last(term))

\* C15: on win32 a terminal path whose file name is none of the families
\* gets the arguments -e, target path, --listen, listen address and the
\* shell option off.
C15_UnknownTerminalGeneric ==
    \A k \in 1..Len(plans) :
        plans[k].in.platform = "win32" /\ BaseName(plans[k].in.term) \notin FamilyNames =>
            /\ plans[k].plan.args
                 = << <<"-e">>, <<plans[k].in.nvim>>, <<"--listen">>, plans[k].in.listen >>
            /\ plans[k].plan.shell = [use |-> FALSE, path |-> ""]

\* the planning has run on win32 for a terminal of an unknown name and
\* for a path that ends in a separator
C15_Witness ==
    /\ TwoRuns
    /\ plans[1].in.platform = "win32" /\ plans[2].in.platform = "win32"
    /\ BaseName(plans[1].in.term) = "foo.exe"
    /\ BaseName(plans[2].in.term) = ""

====
